---- MODULE Spec2Model ----
(***************************************************************************)
(* Model of SublimeLinter3's commands.py: the next/previous-error          *)
(* navigation commands (find_error, select_lint_region, find_mark_within,  *)
(* error_command) and the report command (run, report, finish_lint,        *)
(* insert) with the per-view edit queue it feeds.                          *)
(*                                                                         *)
(* Offsets are small naturals.  A region is a pair <<a, b>> with a <= b;   *)
(* the code only reads regions through begin()/end()/contains(), so the    *)
(* orientation of a region is not modelled.                                *)
(***************************************************************************)
EXTENDS Integers, Sequences, FiniteSets, TLC

\* ---------------------------------------------------------------- bounds
MaxPos == 2         \* offsets of the document are 0..MaxPos
MaxMarks == 2       \* highlight marks of a view, both severities together
MaxSel == 2         \* spans of the user's selection before a command

Positions == 0..MaxPos
RegionSet == {<<a, b>> : a \in Positions, b \in Positions} \ {r \in Positions \X Positions : r[1] > r[2]}

\* Python's None for region_to_select / marked_region.
None == <<-1, -1>>

VARIABLES
    warnMarks,          \* view.get_regions(MARK_KEY_FORMAT.format(WARNING))
    errMarks,           \* view.get_regions(MARK_KEY_FORMAT.format(ERROR))
    sel,                \* the view's selection, view.sel()
    wrap_find,          \* persist.settings.get('wrap_find', True)
    errors,             \* persist.errors[vid]: line -> messages ("vid not in" = empty)
    coalesce,           \* whether the editor's Selection merges regions that only touch
    cmd,                \* the command that ran last: "none", "next", "previous"
    saved_sel,          \* find_error's local saved_sel
    point,              \* find_error's local point
    regions,            \* find_error's local regions, as scanned
    region_to_select,   \* find_error's result
    message,            \* the text of the last sublime.error_message, "" if none
    raised,             \* the exception that left the command, "none" if none
    nrequests,          \* report commands run so far
    scope,              \* scope[r]: the 'on' argument of request r, "" before it runs
    output,             \* output[r]: the id of the view request r created, 0 before
    started,            \* started[r][v]: the lint threads request r started for view v
    pc,                 \* pc[r][v]: where the lint thread of request r, view v is
    linted,             \* linted[r][v]: the linters its lint run passed to finish_lint
    edits,              \* persist.edits: output id -> queued insert closures
    pending,            \* pending[o]: 'sublimelinter_edit' commands requested, not yet run
    draining,           \* the output whose queue is being applied, 0 if none
    batch,              \* the closures the running edit command popped and has yet to call
    text,               \* text[o]: the lines of output document o
    enqueued,           \* enqueued[o]: every closure appended for o, in order
    applied,            \* applied[o]: every closure called for o, in order
    lineText,           \* lineText[l]: the characters of line l of the view, newline included
    options,            \* the entries sublimelinter_all_errors passed to the quick panel
    option_to_line,     \* option_to_line[i]: the line of entry i
    shown               \* the region last passed to view.show_at_center, None if none

navVars == <<warnMarks, errMarks, sel, wrap_find, errors, coalesce, cmd,
             saved_sel, point, regions, region_to_select, message, raised>>

reportVars == <<nrequests, scope, output, started, pc, linted, edits, pending, draining, batch, text,
                enqueued, applied>>

panelVars == <<lineText, options, option_to_line, shown>>

vars == <<navVars, reportVars, panelVars>>

\* ------------------------------------------------------- sublime.Region
Begin(r) == IF r[1] <= r[2] THEN r[1] ELSE r[2]
End(r) == IF r[1] <= r[2] THEN r[2] ELSE r[1]

\* Region.contains(point): closed at both ends.
Contains(r, p) == p >= Begin(r) /\ p <= End(r)

\* Region.contains(region)
ContainsRegion(r, x) == Contains(r, x[1]) /\ Contains(r, x[2])

\* Region.intersects: equal regions, or an end of one strictly inside the other.
Intersects(r, s) ==
    \/ (Begin(r) = Begin(s) /\ End(r) = End(s))
    \/ (Begin(s) > Begin(r) /\ Begin(s) < End(r))
    \/ (End(s) > Begin(r) /\ End(s) < End(r))
    \/ (Begin(r) > Begin(s) /\ Begin(r) < End(s))
    \/ (End(r) > Begin(s) /\ End(r) < End(s))

Touches(r, s) == End(r) = Begin(s) \/ End(s) = Begin(r)

Min(S) == CHOOSE x \in S : \A y \in S : x <= y
Max(S) == CHOOSE x \in S : \A y \in S : x >= y

\* ---------------------------------------------------- sublime.Selection
\* A Selection is the editor's sorted set of non-overlapping regions: a
\* region added to it is merged with the regions it intersects.  Whether two
\* regions that only touch (one ends where the other begins) are merged is
\* the editor's choice; co = TRUE merges them, co = FALSE keeps them apart.
Merges(co, r, s) == Intersects(r, s) \/ (co /\ Touches(r, s))

Before(r, s) == Begin(r) < Begin(s) \/ (Begin(r) = Begin(s) /\ End(r) < End(s))

SelAdd(co, s, r) ==
    LET hit == {i \in 1..Len(s) : Merges(co, s[i], r)}
        merged == <<Min({Begin(r)} \cup {Begin(s[i]) : i \in hit}),
                    Max({End(r)} \cup {End(s[i]) : i \in hit})>>
        keep == SelectSeq(s, LAMBDA x : ~Merges(co, x, r))
        lo == SelectSeq(keep, LAMBDA x : Before(x, merged))
        hi == SelectSeq(keep, LAMBDA x : ~Before(x, merged))
    IN lo \o <<merged>> \o hi

RECURSIVE SelAddAll(_, _, _)
SelAddAll(co, s, rs) ==
    IF Len(rs) = 0 THEN s ELSE SelAddAll(co, SelAdd(co, s, Head(rs)), Tail(rs))

\* ------------------------------------------------------------ find_error
\* sel[0].begin() if forward else sel[-1].end(), after an empty selection
\* has been given the caret (0, 0).
AnchorSelection(s) == IF Len(s) = 0 THEN SelAdd(coalesce, s, <<0, 0>>) ELSE s

AnchorPoint(s, forward) == IF forward THEN Begin(s[1]) ELSE End(s[Len(s)])

\* regions = sublime.Selection(view.id()); clear(); add_all(warning marks);
\* add_all(error marks)
GatherRegions(co, w, e) == SelAddAll(co, SelAddAll(co, <<>>, w), e)

\* Mutant of ScanForward: the comparison is not strict.
RECURSIVE ScanForwardLax(_, _)
ScanForwardLax(rs, p) ==
    IF Len(rs) = 0 THEN None
    ELSE IF p <= Begin(Head(rs)) THEN Head(rs)
    ELSE ScanForwardLax(Tail(rs), p)

\* for region in regions: if point < region.begin(): ... break
RECURSIVE ScanForward(_, _)
ScanForward(rs, p) ==
    IF Len(rs) = 0 THEN None
    ELSE IF p < Begin(Head(rs)) THEN Head(rs)
    ELSE ScanForward(Tail(rs), p)

\* Mutant of ScanBackward: the list is scanned in index order, not reversed.
RECURSIVE ScanBackwardUnreversed(_, _)
ScanBackwardUnreversed(rs, p) ==
    IF Len(rs) = 0 THEN None
    ELSE IF p > End(Head(rs)) THEN Head(rs)
    ELSE ScanBackwardUnreversed(Tail(rs), p)

\* for region in reversed(regions): if point > region.end(): ... break
RECURSIVE ScanBackward(_, _)
ScanBackward(rs, p) ==
    IF Len(rs) = 0 THEN None
    ELSE IF p > End(rs[Len(rs)]) THEN rs[Len(rs)]
    ELSE ScanBackward(SubSeq(rs, 1, Len(rs) - 1), p)

\* regions[0] on an empty Selection raises IndexError; the test is only
\* evaluated when the scan found nothing, and regions[0] only when
\* len(regions) > 1 is false.
WrapTestRaises(rs, found) == found = None /\ Len(rs) = 0

\* Mutant of MayWrap: the test for the sole region holding the caret is dropped.
MayWrapAlways(rs, p, found) == found = None

\* region_to_select is None and (len(regions) > 1 or not regions[0].contains(point))
MayWrap(rs, p, found) == found = None /\ (Len(rs) > 1 \/ ~Contains(rs[1], p))

\* Mutant of WrapRegion: the two ends are swapped.
WrapRegionSwapped(rs, p, found, forward, wrap) ==
    IF MayWrap(rs, p, found) /\ wrap
    THEN (IF forward THEN rs[Len(rs)] ELSE rs[1])
    ELSE found

\* region_to_select = regions[0] if forward else regions[-1], when wrap_find
WrapRegion(rs, p, found, forward, wrap) ==
    IF MayWrap(rs, p, found) /\ wrap
    THEN (IF forward THEN rs[1] ELSE rs[Len(rs)])
    ELSE found

\* marks.sort(key=lambda x: x.begin()): stable, by begin only.
RECURSIVE SortByBegin(_)
SortByBegin(ms) ==
    IF Len(ms) = 0 THEN <<>>
    ELSE LET rest == SortByBegin(SubSeq(ms, 1, Len(ms) - 1))
             m == ms[Len(ms)]
             lo == SelectSeq(rest, LAMBDA x : Begin(x) <= Begin(m))
             hi == SelectSeq(rest, LAMBDA x : Begin(x) > Begin(m))
         IN lo \o <<m>> \o hi

\* Mutant of FirstWithin: a mark that only begins inside the region is taken.
RECURSIVE FirstBeginningWithin(_, _)
FirstBeginningWithin(ms, region) ==
    IF Len(ms) = 0 THEN None
    ELSE IF Contains(region, Begin(Head(ms))) THEN Head(ms)
    ELSE FirstBeginningWithin(Tail(ms), region)

\* for mark in marks: if region.contains(mark): return mark
RECURSIVE FirstWithin(_, _)
FirstWithin(ms, region) ==
    IF Len(ms) = 0 THEN None
    ELSE IF ContainsRegion(region, Head(ms)) THEN Head(ms)
    ELSE FirstWithin(Tail(ms), region)

find_mark_within(w, e, region) == FirstWithin(SortByBegin(w \o e), region)

\* The selection select_lint_region leaves: sel.clear(); sel.add(marked_region)
select_lint_region(co, w, e, region) ==
    LET marked_region == find_mark_within(w, e, region)
    IN SelAdd(co, <<>>, IF marked_region = None
                        THEN <<Begin(region), Begin(region)>>
                        ELSE marked_region)

\* Mutant of RestoreSelection: the selection is saved after the caret (0, 0)
\* was added to an empty selection, so that is what is put back.
RestoreSelectionAnchored(co, saved) ==
    SelAddAll(co, <<>>, IF Len(saved) = 0 THEN <<<<0, 0>>>> ELSE saved)

\* sel.clear(); sel.add_all(saved_sel)
RestoreSelection(co, saved) == SelAddAll(co, <<>>, saved)

NoDirectionMessage(forward) ==
    IF forward THEN "No next lint errors." ELSE "No previous lint errors."

\* find_error runs on the view's live selection: sublime.Selection(view.id())
\* is the same selection view.sel() returns, so clearing `regions` and adding
\* the marks to it replaces the selection until it is set again at the end.
find_error(forward) ==
    /\ saved_sel' = sel
    /\ point' = AnchorPoint(AnchorSelection(sel), forward)
    /\ regions' = GatherRegions(coalesce, warnMarks, errMarks)
    /\ LET found == IF forward THEN ScanForward(regions', point')
                               ELSE ScanBackward(regions', point')
       IN IF WrapTestRaises(regions', found)
          THEN /\ raised' = "IndexError"
               /\ region_to_select' = None
               /\ sel' = regions'
               /\ message' = ""
          ELSE /\ raised' = "none"
               /\ region_to_select' = WrapRegion(regions', point', found, forward, wrap_find)
               /\ IF region_to_select' # None
                  THEN /\ sel' = select_lint_region(coalesce, warnMarks, errMarks,
                                                    region_to_select')
                       /\ message' = ""
                  ELSE /\ sel' = RestoreSelection(coalesce, saved_sel')
                       /\ message' = NoDirectionMessage(forward)

\* error_command: run f only if the view has errors.
HasErrors == DOMAIN errors # {}

error_command(forward) ==
    IF HasErrors
    THEN find_error(forward)
    ELSE /\ message' = "No lint errors."
         /\ raised' = "none"
         /\ region_to_select' = None
         /\ UNCHANGED <<sel, saved_sel, point, regions>>

\* sublimelinter_next_error.run
NextError ==
    /\ cmd' = "next"
    /\ error_command(TRUE)
    /\ UNCHANGED <<warnMarks, errMarks, wrap_find, errors, coalesce>>
    /\ UNCHANGED <<reportVars, panelVars>>

\* sublimelinter_previous_error.run
PreviousError ==
    /\ cmd' = "previous"
    /\ error_command(FALSE)
    /\ UNCHANGED <<warnMarks, errMarks, wrap_find, errors, coalesce>>
    /\ UNCHANGED <<reportVars, panelVars>>

\* ------------------------------------------------------------- the inputs
SeqsUpTo(S, n) == UNION {[1..k -> S] : k \in 0..n}

\* get_regions returns the marks of one severity in document order.
InDocumentOrder(ms) == \A i \in 1..(Len(ms) - 1) : Before(ms[i], ms[i + 1])

MarkPairs ==
    {p \in SeqsUpTo(RegionSet, MaxMarks) \X SeqsUpTo(RegionSet, MaxMarks) :
        /\ Len(p[1]) + Len(p[2]) <= MaxMarks
        /\ InDocumentOrder(p[1])
        /\ InDocumentOrder(p[2])}

\* The selections a view can hold: every Selection built from up to MaxSel spans.
Selections(co) == {SelAddAll(co, <<>>, s) : s \in SeqsUpTo(RegionSet, MaxSel)}

SelectionsMerged == Selections(TRUE)
SelectionsApart == Selections(FALSE)

\* The marks are drawn from the errors of the same lint pass: a view without
\* errors has no marks, while errors that carry no column leave no mark.
NoErrors == [l \in {} |-> <<>>]
ErrorMaps == {NoErrors, [l \in {0} |-> <<"E1">>]}

\* ---------------------------------------------------------------- report
NumViews == 2       \* the window's open views
MaxRequests == 2    \* report commands run

Views == 1..NumViews
Requests == 1..MaxRequests

\* A linter as finish_lint reads it: filename (path components, <<>> for
\* None) and errors (line -> sequence of <<col, error>>).
NamedClean == [filename |-> <<"src", "a.py">>, errors |-> NoErrors]
NamedDirty ==
    [filename |-> <<"src", "a.py">>,
     errors |-> [l \in {3, 7} |-> IF l = 3 THEN <<<<0, "x">>>>
                                           ELSE <<<<4, "y">>, <<1, "z">>>>]]
UnnamedDirty == [filename |-> <<>>, errors |-> [l \in {5} |-> <<<<2, "w">>>>]]

\* The linters a lint run can hand to finish_lint.
LinterChoices ==
    {<<>>, <<NamedClean>>, <<NamedDirty>>, <<UnnamedDirty, NamedDirty>>}

\* os.path.basename(linters[0].filename or 'untitled')
Basename(ls) ==
    LET path == IF ls[1].filename = <<>> THEN <<"untitled">> ELSE ls[1].filename
    IN path[Len(path)]

\* for col, error in errors: out += '  {}: {}\n'.format(line, error)
RECURSIVE LineErrors(_, _)
LineErrors(line, errs) ==
    IF Len(errs) = 0 THEN <<>>
    ELSE <<<<"error", line, Head(errs)[2]>>>> \o LineErrors(line, Tail(errs))

\* for line, errors in sorted(linter.errors.items()): ...
RECURSIVE LinterLines(_, _)
LinterLines(errs, lines) ==
    IF lines = {} THEN <<>>
    ELSE LET line == Min(lines)
         IN LineErrors(line, errs[line]) \o LinterLines(errs, lines \ {line})

\* for linter in linters: if linter.errors: ...
RECURSIVE AllLinterLines(_)
AllLinterLines(ls) ==
    IF Len(ls) = 0 THEN <<>>
    ELSE (IF DOMAIN Head(ls).errors # {}
          THEN LinterLines(Head(ls).errors, DOMAIN Head(ls).errors)
          ELSE <<>>) \o AllLinterLines(Tail(ls))

\* out = '\n{}:\n'.format(filename) followed by the error lines
Fragment(ls) == <<<<"blank">>, <<"header", Basename(ls)>>>> \o AllLinterLines(ls)

\* any(l.errors for l in linters)
AnyErrors(ls) == \E i \in 1..Len(ls) : DOMAIN ls[i].errors # {}

\* Mutant of insert: the header goes to the end of the output and the error
\* lines to its start.
insertSplit(t, ls) ==
    IF ~AnyErrors(ls)
    THEN t
    ELSE AllLinterLines(ls) \o t \o <<<<"blank">>, <<"header", Basename(ls)>>>>

\* Mutant of insert: the test for linters without errors is dropped.
insertAlways(t, ls) == t \o Fragment(ls)

\* Mutant of insert: the fragment is inserted at offset 0.
insertAtStart(t, ls) == IF ~AnyErrors(ls) THEN t ELSE Fragment(ls) \o t

\* insert(edit): the text of the output after the closure has run on it;
\* output.insert(edit, output.size(), out) appends.
insert(t, ls) == IF ~AnyErrors(ls) THEN t ELSE t \o Fragment(ls)

\* Mutant of Enqueue: the closure is appended twice.
EnqueueTwice(q, o, c) == [q EXCEPT ![o] = Append(Append(@, c), c)]

\* persist.edits[output.id()].append(insert)
Enqueue(q, o, c) == [q EXCEPT ![o] = Append(@, c)]

\* Mutant of new_file: the first output view is used again.
new_file_reused(n) == IF n = 0 THEN n + 1 ELSE n

\* self.window.new_file(): a view the window did not have, after n others.
new_file(n) == n + 1

\* Mutant of Reported: the folder walk reports the open views as well.
ReportedWithFolders(on) == Views

\* The views run passes to report(output, view): every view of the window
\* for 'files' and 'both'; the folder walk of 'folders' and 'both' reports
\* nothing.
Reported(on) == IF on \in {"files", "both"} THEN Views ELSE {}

\* Mutant of SameThread: one thread lints the views of a request in turn.
SameThreadPerRequest(r, v) == {<<r, w>> : w \in Views}

\* Thread(target=lint, args=(view.id(), finish_lint)).start(): the lint of
\* view v for request r has a thread to itself.
SameThread(r, v) == {<<r, v>>}

\* Mutant of RequestEdit: the edit command is not requested.
RequestEditNever(p, o) == p

\* output.run_command('sublimelinter_edit'): one more edit command for o.
RequestEdit(p, o) == [p EXCEPT ![o] = @ + 1]

\* sublimelinter_report.run: a new output view, and one report(output, view),
\* which starts one lint thread, for each reported view.
Run(on) ==
    /\ nrequests < MaxRequests
    /\ nrequests' = nrequests + 1
    /\ scope' = [scope EXCEPT ![nrequests + 1] = on]
    /\ output' = [output EXCEPT ![nrequests + 1] = new_file(nrequests)]
    /\ started' = [started EXCEPT ![nrequests + 1] =
                      [v \in Views |-> IF v \in Reported(on) THEN 1 ELSE 0]]
    /\ pc' = [pc EXCEPT ![nrequests + 1] =
                 [v \in Views |-> IF v \in Reported(on) THEN "lint" ELSE "none"]]
    /\ UNCHANGED <<linted, edits, pending, draining, batch, text, enqueued, applied>>
    /\ UNCHANGED <<navVars, panelVars>>

\* The lint thread of (r, v) ends in finish_lint(view, linters): return if
\* there are no linters, else append the closure to the output's queue.
finish_lint(r, v, ls) ==
    /\ pc[r][v] = "lint"
    /\ linted' = [linted EXCEPT ![r][v] = ls]
    /\ IF Len(ls) = 0
       THEN /\ pc' = [pc EXCEPT ![r][v] = "done"]
            /\ UNCHANGED <<edits, enqueued>>
       ELSE /\ pc' = [pc EXCEPT ![r][v] = "run"]
            /\ edits' = Enqueue(edits, output[r], <<r, v>>)
            /\ enqueued' = [enqueued EXCEPT ![output[r]] = Append(@, <<r, v>>)]
    /\ UNCHANGED <<nrequests, scope, output, started, pending, draining, batch, text, applied>>
    /\ UNCHANGED <<navVars, panelVars>>

\* output.run_command('sublimelinter_edit'), the last statement of finish_lint
run_command(r, v) ==
    /\ pc[r][v] = "run"
    /\ pc' = [pc EXCEPT ![r][v] = "done"]
    /\ pending' = RequestEdit(pending, output[r])
    /\ UNCHANGED <<nrequests, scope, output, started, linted, edits, draining, batch, text, enqueued, applied>>
    /\ UNCHANGED <<navVars, panelVars>>

\* The thread linting view v for request r dies before it calls finish_lint,
\* and with it every lint that thread had yet to finish.
LintFails(r, v) ==
    /\ pc[r][v] = "lint"
    /\ pc' = [q \in Requests |-> [w \in Views |->
                 IF <<q, w>> \in SameThread(r, v) /\ pc[q][w] = "lint"
                 THEN "failed" ELSE pc[q][w]]]
    /\ UNCHANGED <<nrequests, scope, output, started, linted, edits, pending, draining, batch, text,
                   enqueued, applied>>
    /\ UNCHANGED <<navVars, panelVars>>

\* The 'sublimelinter_edit' command of output o starts on the view's owner:
\* it pops every closure queued for o.  One such command runs at a time.
EditBegin(o) ==
    /\ draining = 0
    /\ pending[o] > 0
    /\ pending' = [pending EXCEPT ![o] = @ - 1]
    /\ edits' = [edits EXCEPT ![o] = <<>>]
    /\ batch' = edits[o]
    /\ draining' = IF Len(edits[o]) = 0 THEN 0 ELSE o
    /\ UNCHANGED <<nrequests, scope, output, started, pc, linted, text, enqueued, applied>>
    /\ UNCHANGED <<navVars, panelVars>>

\* The running command calls the next popped closure, in queue order, and
\* ends after the last one.  The closure inserts into the output it captured.
EditStep ==
    /\ draining # 0
    /\ LET c == Head(batch)
       IN /\ text' = [text EXCEPT ![output[c[1]]] = insert(@, linted[c[1]][c[2]])]
          /\ applied' = [applied EXCEPT ![draining] = Append(@, c)]
    /\ batch' = Tail(batch)
    /\ draining' = IF Len(batch) = 1 THEN 0 ELSE draining
    /\ UNCHANGED <<nrequests, scope, output, started, pc, linted, edits, pending, enqueued>>
    /\ UNCHANGED <<navVars, panelVars>>

\* ------------------------------------------- sublimelinter_all_errors
MaxLine == 1        \* the view has lines 0..MaxLine
MaxMessages == 3    \* messages of one line of persist.errors

Lines == 0..MaxLine

\* A line is a sequence of characters; "sp" is a blank, "nl" the newline.
LineTexts == {<<"a", "nl">>, <<"sp", "b", "sp", "c", "sp", "nl">>}

Whitespace == {"sp", "nl"}

RECURSIVE lstrip(_)
lstrip(str) ==
    IF Len(str) > 0 /\ Head(str) \in Whitespace THEN lstrip(Tail(str)) ELSE str

RECURSIVE rstrip(_)
rstrip(str) ==
    IF Len(str) > 0 /\ str[Len(str)] \in Whitespace
    THEN rstrip(SubSeq(str, 1, Len(str) - 1))
    ELSE str

\* str.strip()
strip(str) == rstrip(lstrip(str))

Digit(d) == <<"0", "1", "2", "3", "4", "5", "6", "7", "8", "9">>[d + 1]

\* "%i" of a natural number
RECURSIVE FormatInt(_)
FormatInt(n) ==
    IF n < 10 THEN <<Digit(n)>> ELSE FormatInt(n \div 10) \o <<Digit(n % 10)>>

\* view.text_point(lineno, 0) in a view whose lines are lt
RECURSIVE text_point(_, _)
text_point(lt, lineno) ==
    IF lineno = 0 THEN 0 ELSE text_point(lt, lineno - 1) + Len(lt[lineno - 1])

\* view.full_line(view.text_point(lineno, 0)): the line with its newline
full_line(lt, lineno) ==
    <<text_point(lt, lineno), text_point(lt, lineno) + Len(lt[lineno])>>

\* view.line(view.text_point(lineno, 0)): the line without its newline
line_region(lt, lineno) ==
    <<text_point(lt, lineno),
      text_point(lt, lineno) + Len(lt[lineno])
          - (IF Len(lt[lineno]) > 0 /\ lt[lineno][Len(lt[lineno])] = "nl" THEN 1 ELSE 0)>>

RECURSIVE Buffer(_, _)
Buffer(lt, lineno) ==
    IF lineno > MaxLine THEN <<>> ELSE lt[lineno] \o Buffer(lt, lineno + 1)

\* view.substr(region)
substr(lt, r) == SubSeq(Buffer(lt, 0), Begin(r) + 1, End(r))

\* "%i| %s" % (lineno + 1, line.strip())
Header(lineno, line) == FormatInt(lineno + 1) \o <<"|", "sp">> \o strip(line)

\* Mutant of Entries: the loop drops one message, not two, after each entry.
RECURSIVE EntriesOverlapping(_, _, _)
EntriesOverlapping(lineno, line, messages) ==
    IF Len(messages) = 0 THEN <<>>
    ELSE <<[line |-> lineno,
            option |-> <<Header(lineno, line)>>
                          \o SubSeq(messages, 1, Min({2, Len(messages)}))]>>
         \o EntriesOverlapping(lineno, line, Tail(messages))

\* The while loop over the messages of one line: an entry of the header and
\* messages[:2], then messages = messages[2:].
RECURSIVE Entries(_, _, _)
Entries(lineno, line, messages) ==
    IF Len(messages) = 0 THEN <<>>
    ELSE <<[line |-> lineno,
            option |-> <<Header(lineno, line)>>
                          \o SubSeq(messages, 1, Min({2, Len(messages)}))]>>
         \o Entries(lineno, line, SubSeq(messages, 3, Len(messages)))

\* for lineno, messages in sorted(errors.items()), from the lines in todo
RECURSIVE AllEntries(_, _, _)
AllEntries(errs, lt, todo) ==
    IF todo = {} THEN <<>>
    ELSE LET lineno == CHOOSE l \in todo : \A k \in todo : l <= k
         IN Entries(lineno, substr(lt, full_line(lt, lineno)), errs[lineno])
               \o AllEntries(errs, lt, todo \ {lineno})

\* sublimelinter_all_errors.run under error_command: the entries of the quick
\* panel and the line of each.
AllErrors ==
    /\ cmd' = "all"
    /\ IF HasErrors
       THEN LET es == AllEntries(errors, lineText, DOMAIN errors)
            IN /\ options' = [i \in 1..Len(es) |-> es[i].option]
               /\ option_to_line' = [i \in 1..Len(es) |-> es[i].line]
               /\ message' = ""
       ELSE /\ message' = "No lint errors."
            /\ UNCHANGED <<options, option_to_line>>
    /\ raised' = "none"
    /\ UNCHANGED <<warnMarks, errMarks, sel, wrap_find, errors, coalesce,
                   saved_sel, point, regions, region_to_select>>
    /\ UNCHANGED <<lineText, shown>>
    /\ UNCHANGED reportVars

\* select_line(view, line)
select_line(co, lt, lineno) == SelAdd(co, <<>>, line_region(lt, lineno))

\* center_line(i), the quick panel's callback: i is the 0-based index of the
\* entry chosen, -1 when the panel was cancelled.
center_line(i) ==
    /\ cmd = "all" /\ HasErrors
    /\ cmd' = "center"
    /\ IF i # -1
       THEN /\ sel' = select_line(coalesce, lineText, option_to_line[i + 1])
            /\ shown' = sel'[1]
       ELSE UNCHANGED <<sel, shown>>
    /\ UNCHANGED <<warnMarks, errMarks, wrap_find, errors, coalesce, saved_sel,
                   point, regions, region_to_select, message, raised>>
    /\ UNCHANGED <<lineText, options, option_to_line>>
    /\ UNCHANGED reportVars

PanelIdle ==
    /\ lineText = [l \in Lines |-> <<"a", "nl">>]
    /\ options = <<>>
    /\ option_to_line = <<>>
    /\ shown = None

\* persist.errors of a view: some of its lines, each with one or more
\* messages, the j-th written <<"m", j>>.
PanelErrorMaps ==
    UNION {[ls -> {[j \in 1..k |-> <<"m", j>>] : k \in 1..MaxMessages}] :
              ls \in SUBSET Lines}

ReportIdle ==
    /\ nrequests = 0
    /\ scope = [r \in Requests |-> ""]
    /\ output = [r \in Requests |-> 0]
    /\ started = [r \in Requests |-> [v \in Views |-> 0]]
    /\ pc = [r \in Requests |-> [v \in Views |-> "none"]]
    /\ linted = [r \in Requests |-> [v \in Views |-> <<>>]]
    /\ edits = [o \in Requests |-> <<>>]
    /\ pending = [o \in Requests |-> 0]
    /\ draining = 0
    /\ batch = <<>>
    /\ text = [o \in Requests |-> <<>>]
    /\ enqueued = [o \in Requests |-> <<>>]
    /\ applied = [o \in Requests |-> <<>>]

\* The report command does not read the navigation state: one view state.
InitReport ==
    /\ ReportIdle
    /\ PanelIdle
    /\ coalesce = FALSE
    /\ wrap_find = TRUE
    /\ errors = NoErrors
    /\ warnMarks = <<>>
    /\ errMarks = <<>>
    /\ sel = <<>>
    /\ cmd = "none"
    /\ saved_sel = <<>>
    /\ point = 0
    /\ regions = <<>>
    /\ region_to_select = None
    /\ message = ""
    /\ raised = "none"

NextReport ==
    \/ \E on \in {"files", "folders", "both"} : Run(on)
    \/ \E r \in Requests : \E v \in Views : \E ls \in LinterChoices : finish_lint(r, v, ls)
    \/ \E r \in Requests : \E v \in Views : run_command(r, v)
    \/ \E r \in Requests : \E v \in Views : LintFails(r, v)
    \/ \E o \in Requests : EditBegin(o)
    \/ EditStep

SpecReport == InitReport /\ [][NextReport]_vars

InitAll ==
    /\ ReportIdle
    /\ errors \in PanelErrorMaps
    /\ lineText \in [Lines -> LineTexts]
    /\ options = <<>>
    /\ option_to_line = <<>>
    /\ shown = None
    /\ coalesce = FALSE
    /\ wrap_find = TRUE
    /\ warnMarks = <<>>
    /\ errMarks = <<>>
    /\ sel = <<>>
    /\ cmd = "none"
    /\ saved_sel = <<>>
    /\ point = 0
    /\ regions = <<>>
    /\ region_to_select = None
    /\ message = ""
    /\ raised = "none"

NextAll ==
    \/ AllErrors
    \/ \E i \in -1..(Len(options) - 1) : center_line(i)

SpecAll == InitAll /\ [][NextAll]_vars

\* The owner of the views runs every edit command it was asked for, and a
\* command that has popped its closures calls them all; a thread that has
\* appended its closure goes on to its next statement.  Nothing is assumed of
\* the lint runs or of the user.
FairReport ==
    /\ WF_vars(\E o \in Requests : EditBegin(o))
    /\ WF_vars(EditStep)
    /\ \A r \in Requests : \A v \in Views : WF_vars(run_command(r, v))

\* The progress of the edits does not depend on what a fragment says nor on
\* the folder walk of 'both': the lint results and scopes that differ in
\* whether a thread is started, a closure appended and a fragment inserted.
NextReportFair ==
    \/ \E on \in {"files", "folders"} : Run(on)
    \/ \E r \in Requests : \E v \in Views :
          \E ls \in {<<>>, <<NamedClean>>, <<NamedDirty>>} : finish_lint(r, v, ls)
    \/ \E r \in Requests : \E v \in Views : run_command(r, v)
    \/ \E r \in Requests : \E v \in Views : LintFails(r, v)
    \/ \E o \in Requests : EditBegin(o)
    \/ EditStep

SpecReportFair == InitReport /\ [][NextReportFair]_vars /\ FairReport

Init ==
    /\ ReportIdle
    /\ PanelIdle
    /\ coalesce \in BOOLEAN
    /\ wrap_find \in BOOLEAN
    /\ errors \in ErrorMaps
    /\ \E p \in MarkPairs :
          /\ warnMarks = p[1]
          /\ errMarks = p[2]
          /\ (DOMAIN errors = {} => Len(p[1]) + Len(p[2]) = 0)
    /\ sel \in (IF coalesce THEN SelectionsMerged ELSE SelectionsApart)
    /\ cmd = "none"
    /\ saved_sel = <<>>
    /\ point = 0
    /\ regions = <<>>
    /\ region_to_select = None
    /\ message = ""
    /\ raised = "none"

Next == NextError \/ PreviousError

Spec == Init /\ [][Next]_vars

\* select_lint_region applied to a region of the caller's choosing, for the
\* placement rule on regions that hold no mark: find_error itself only passes
\* regions built from the marks.  find_error's locals do not exist in such a
\* call and are reset.
PlaceSelection ==
    \E r \in RegionSet :
        /\ cmd' = "select"
        /\ region_to_select' = r
        /\ sel' = select_lint_region(coalesce, warnMarks, errMarks, r)
        /\ raised' = "none"
        /\ message' = ""
        /\ saved_sel' = <<>>
        /\ point' = 0
        /\ regions' = <<>>
        /\ UNCHANGED <<warnMarks, errMarks, wrap_find, errors, coalesce>>
        /\ UNCHANGED <<reportVars, panelVars>>

NextPlace == NextError \/ PreviousError \/ PlaceSelection

\* The placement reads the marks and the region only: the view starts with
\* errors, wrap_find set, and an empty or a whole-document selection.
InitPlace ==
    /\ ReportIdle
    /\ PanelIdle
    /\ coalesce \in BOOLEAN
    /\ wrap_find = TRUE
    /\ errors = [l \in {0} |-> <<"E1">>]
    /\ \E p \in MarkPairs : warnMarks = p[1] /\ errMarks = p[2]
    /\ sel \in {<<>>, <<<<0, MaxPos>>>>}
    /\ cmd = "none"
    /\ saved_sel = <<>>
    /\ point = 0
    /\ regions = <<>>
    /\ region_to_select = None
    /\ message = ""
    /\ raised = "none"

SpecPlace == InitPlace /\ [][NextPlace]_vars

\* ------------------------------------------------- navigation: the claims
\* The anchors of the selection the command started from.
caretBegin == IF Len(saved_sel) = 0 THEN 0 ELSE Begin(saved_sel[1])
caretEnd == IF Len(saved_sel) = 0 THEN 0 ELSE End(saved_sel[Len(saved_sel)])

\* find_error was entered by the named command.
Searched(c) == cmd = c /\ HasErrors

AllMarks == warnMarks \o errMarks

AfterCaret(rs) == {i \in 1..Len(rs) : Begin(rs[i]) > caretBegin}
BeforeCaret(rs) == {i \in 1..Len(rs) : End(rs[i]) < caretEnd}

\* `regions` is the marks of both severities as one Selection: in position
\* order, no two of its regions intersecting, every mark inside one of them
\* and every one of them spanning from a mark's begin to a mark's end.
RegionsAreMergedMarks ==
    /\ \A i \in 1..Len(regions) : \A j \in 1..Len(regions) :
          i < j => (Before(regions[i], regions[j]) /\ ~Intersects(regions[i], regions[j]))
    /\ \A k \in 1..Len(AllMarks) : \E i \in 1..Len(regions) :
          ContainsRegion(regions[i], AllMarks[k])
    /\ \A i \in 1..Len(regions) :
          /\ \E k \in 1..Len(AllMarks) : Begin(AllMarks[k]) = Begin(regions[i])
          /\ \E k \in 1..Len(AllMarks) : End(AllMarks[k]) = End(regions[i])

\* No two marks intersect or touch: the Selection holds exactly the marks.
MarksLieApart ==
    \A i \in 1..Len(AllMarks) : \A j \in 1..Len(AllMarks) :
        i # j => (~Intersects(AllMarks[i], AllMarks[j])
                    /\ ~Touches(AllMarks[i], AllMarks[j]))

\* C1 (as stated): a forward search with some region beginning after the
\* caret chooses the first such region of the list "warning regions followed
\* by error regions", whatever wrap_find is.  Stated for marks that lie
\* apart, where the regions are the marks themselves and only their order is
\* in question.
C1_FirstInSeverityOrder ==
    (Searched("next") /\ MarksLieApart /\ AfterCaret(AllMarks) # {})
        => region_to_select = AllMarks[Min(AfterCaret(AllMarks))]

\* C1 (amended): a forward search with some region beginning after the caret
\* chooses the first such region of the merged marks in position order (the
\* warning and error marks as one sorted Selection), whatever wrap_find is.
C1_FirstInPositionOrder ==
    (Searched("next") /\ AfterCaret(regions) # {})
        => /\ raised = "none"
           /\ RegionsAreMergedMarks
           /\ region_to_select = regions[Min(AfterCaret(regions))]
           /\ \A i \in 1..Len(regions) :
                 Begin(regions[i]) > caretBegin
                     => Begin(region_to_select) <= Begin(regions[i])

\* An error mark lies before the warning mark, both after the caret, and the
\* search took the error mark's region.
C1_Witness ==
    /\ Searched("next")
    /\ Len(warnMarks) = 1 /\ Len(errMarks) = 1
    /\ Begin(errMarks[1]) > caretBegin
    /\ Begin(warnMarks[1]) > End(errMarks[1])
    /\ Len(regions) = 2
    /\ region_to_select = regions[1]
    /\ ContainsRegion(region_to_select, errMarks[1])

\* C2: a backward search with some region of the scanned list ending before
\* the caret (the end of the selection's last span) chooses the first such
\* region met scanning the list in reverse, whatever wrap_find is.
C2_BackwardFirstBefore ==
    (Searched("previous") /\ BeforeCaret(regions) # {})
        => /\ raised = "none"
           /\ region_to_select = regions[Max(BeforeCaret(regions))]

\* Two regions end before the caret of a two-span selection; the later one
\* was chosen.
C2_Witness ==
    /\ Searched("previous")
    /\ Len(saved_sel) = 2
    /\ Cardinality(BeforeCaret(regions)) = 2
    /\ region_to_select = regions[2]

\* C3: with wrap_find and at least two regions, a forward search from inside
\* the last region selects the first region, and a backward search from
\* inside the first region selects the last.
C3_WrapAround ==
    /\ (Searched("next") /\ wrap_find /\ Len(regions) >= 2
            /\ Contains(regions[Len(regions)], caretBegin))
        => /\ raised = "none"
           /\ region_to_select = regions[1]
           /\ Len(sel) = 1 /\ ContainsRegion(regions[1], sel[1])
    /\ (Searched("previous") /\ wrap_find /\ Len(regions) >= 2
            /\ Contains(regions[1], caretEnd))
        => /\ raised = "none"
           /\ region_to_select = regions[Len(regions)]
           /\ Len(sel) = 1 /\ ContainsRegion(regions[Len(regions)], sel[1])

\* A forward search from inside the last of two regions wrapped to the first.
C3_Witness ==
    /\ Searched("next") /\ wrap_find
    /\ Len(regions) = 2
    /\ Contains(regions[2], caretBegin)
    /\ ~Contains(regions[1], caretBegin)
    /\ region_to_select = regions[1]

\* C4: with wrap_find and exactly one region, a search in either direction
\* whose caret lies inside that region reports no region and the sole region
\* is not selected again.
C4_SoleRegionNotReselected ==
    /\ (Searched("next") /\ wrap_find /\ Len(regions) = 1
            /\ Contains(regions[1], caretBegin))
        => (raised = "none" /\ region_to_select = None /\ sel = saved_sel)
    /\ (Searched("previous") /\ wrap_find /\ Len(regions) = 1
            /\ Contains(regions[1], caretEnd))
        => (raised = "none" /\ region_to_select = None /\ sel = saved_sel)

\* A backward search with the caret inside the sole region found nothing.
C4_Witness ==
    /\ Searched("previous") /\ wrap_find
    /\ Len(regions) = 1
    /\ Contains(regions[1], caretEnd)
    /\ Begin(regions[1]) < End(regions[1])
    /\ region_to_select = None
    /\ message = "No previous lint errors."

\* C5: whenever find_error returns no region the selection is the one the
\* command started from, an empty one included, and the direction's message
\* is shown; without wrap_find a forward search from inside the last region
\* returns no region.
C5_FailureRestoresSelection ==
    /\ ((Searched("next") \/ Searched("previous"))
            /\ raised = "none" /\ region_to_select = None)
        => /\ sel = saved_sel
           /\ message = NoDirectionMessage(cmd = "next")
    /\ (Searched("next") /\ ~wrap_find /\ Len(regions) >= 1
            /\ Contains(regions[Len(regions)], caretBegin))
        => (raised = "none" /\ region_to_select = None /\ sel = saved_sel)

\* A forward search from an empty selection found nothing and left the
\* selection empty.
C5_Witness ==
    /\ Searched("next")
    /\ saved_sel = <<>>
    /\ Len(regions) >= 1
    /\ raised = "none"
    /\ region_to_select = None
    /\ sel = <<>>

C7_NoRegionsNoRaise ==
    (cmd # "none" /\ Len(AllMarks) = 0)
        => /\ raised = "none"
           /\ region_to_select = None
           /\ message # ""
           /\ (HasErrors => sel = saved_sel)

MarksWithin(r) == {k \in 1..Len(AllMarks) : ContainsRegion(r, AllMarks[k])}

\* select_lint_region has placed the selection for region_to_select.
Placed ==
    \/ cmd = "select"
    \/ (cmd \in {"next", "previous"} /\ HasErrors /\ raised = "none"
            /\ region_to_select # None)

\* C8: after the selection is placed for region R, it is exactly the span of
\* the mark R contains when R contains exactly one mark, and the single empty
\* point at R's begin when R contains no mark.
C8_SelectionPlacement ==
    Placed =>
        /\ \A k \in MarksWithin(region_to_select) :
              Cardinality(MarksWithin(region_to_select)) = 1
                  => sel = <<AllMarks[k]>>
        /\ MarksWithin(region_to_select) = {}
              => sel = <<<<Begin(region_to_select), Begin(region_to_select)>>>>

\* A region that holds no mark, though a mark begins inside it, got the
\* empty point at its begin.
C8_Witness ==
    /\ cmd = "select"
    /\ MarksWithin(region_to_select) = {}
    /\ \E k \in 1..Len(AllMarks) : Contains(region_to_select, Begin(AllMarks[k]))
    /\ sel = <<<<Begin(region_to_select), Begin(region_to_select)>>>>

\* ----------------------------------------------------- report: the claims
Closures == Requests \X Views

Count(q, c) == Cardinality({i \in 1..Len(q) : q[i] = c})

IsPrefix(a, b) == Len(a) <= Len(b) /\ SubSeq(b, 1, Len(a)) = a

Quiescent ==
    /\ \A r \in Requests : \A v \in Views : pc[r][v] \in {"none", "done", "failed"}
    /\ \A o \in Requests : pending[o] = 0
    /\ draining = 0

\* C9: every closure appended for an output is called at most once and is
\* never lost: at any moment it is still queued, or popped by the running
\* edit command and about to be called, or has been called once; and once
\* every thread has finished and every requested edit command has run, every
\* closure appended has been called.
C9_EachEditOnce ==
    /\ \A o \in Requests : \A c \in Closures :
          /\ Count(applied[o], c) <= 1
          /\ Count(enqueued[o], c)
                = Count(edits[o], c)
                    + (IF draining = o THEN Count(batch, c) ELSE 0)
                    + Count(applied[o], c)
    /\ Quiescent => \A o \in Requests : Len(applied[o]) = Len(enqueued[o])

\* While the edit command of an output is about to call the closure it
\* popped, another thread has appended a closure to the same output's queue.
C9_Witness ==
    \E o \in Requests :
        /\ draining = o
        /\ Len(batch) = 1
        /\ Len(edits[o]) = 1
        /\ edits[o][1] # batch[1]

\* The text the closures cs leave in an empty output when called in order.
RECURSIVE TextOf(_)
TextOf(cs) ==
    IF Len(cs) = 0 THEN <<>>
    ELSE (IF AnyErrors(linted[Head(cs)[1]][Head(cs)[2]])
          THEN Fragment(linted[Head(cs)[1]][Head(cs)[2]])
          ELSE <<>>) \o TextOf(Tail(cs))

\* C10: the closures of one output are called in the order they were
\* appended, and the output's text is their fragments in that order: the text
\* of a closure appended earlier lies before the text of one appended later.
C10_FifoPerOutput ==
    \A o \in Requests :
        /\ IsPrefix(applied[o], enqueued[o])
        /\ text[o] = TextOf(applied[o])

\* Two closures with different fragments were appended for one output and
\* both have been called.
C10_Witness ==
    \E o \in Requests :
        /\ Len(applied[o]) = 2
        /\ AnyErrors(linted[applied[o][1][1]][applied[o][1][2]])
        /\ AnyErrors(linted[applied[o][2][1]][applied[o][2][2]])
        /\ Fragment(linted[applied[o][1][1]][applied[o][1][2]])
              # Fragment(linted[applied[o][2][1]][applied[o][2][2]])
        /\ Len(text[o]) > Len(Fragment(linted[applied[o][1][1]][applied[o][1][2]]))

\* The producers of output o whose closure inserts a fragment.
Dirty(o) == {v \in Views : AnyErrors(linted[o][v])}

\* Every order in which some of the views can be taken, each once.
Orderings ==
    {q \in SeqsUpTo(Views, NumViews) : \A i \in 1..Len(q) : \A j \in 1..Len(q) :
        i # j => q[i] # q[j]}

RECURSIVE FragmentsOf(_, _)
FragmentsOf(o, q) ==
    IF Len(q) = 0 THEN <<>>
    ELSE Fragment(linted[o][Head(q)]) \o FragmentsOf(o, Tail(q))

\* Every thread of request o has ended and every edit command it asked for
\* has run.
Settled(o) ==
    /\ \A v \in Views : pc[o][v] \in {"none", "done", "failed"}
    /\ pending[o] = 0
    /\ draining # o

\* C11: the text of an output is whole fragments laid end to end, one per
\* producer, each with its lines contiguous and in the producer's order: no
\* line of one fragment lies between two lines of another; and once the
\* producers have ended and the queue has been drained, the fragment of every
\* producer that had diagnostics is there.
C11_FragmentsContiguous ==
    \A o \in Requests :
        \E q \in Orderings :
            /\ \A i \in 1..Len(q) : q[i] \in Dirty(o)
            /\ text[o] = FragmentsOf(o, q)
            /\ Settled(o) => {q[i] : i \in 1..Len(q)} = Dirty(o)

\* Two producers with different fragments appended to the same output's queue
\* before an edit command drained it, and both fragments are in the text.
C11_Witness ==
    \E o \in Requests :
        /\ Settled(o)
        /\ Cardinality(Dirty(o)) = 2
        /\ linted[o][1] # linted[o][2]
        /\ Len(text[o]) = Len(Fragment(linted[o][1])) + Len(Fragment(linted[o][2]))

Headers(t) == {i \in 1..Len(t) : t[i][1] = "header"}

\* C12: a view whose linters produced no diagnostics, or that has no linters,
\* adds nothing to the report: an output holds one header for each closure
\* with diagnostics that has been called and nothing for the others, so the
\* output of a request whose views are all clean stays empty.
C12_CleanViewAddsNothing ==
    \A o \in Requests :
        /\ Cardinality(Headers(text[o]))
              = Cardinality({i \in 1..Len(applied[o]) :
                                AnyErrors(linted[applied[o][i][1]][applied[o][i][2]])})
        /\ Dirty(o) = {} => text[o] = <<>>

\* The closure of a view with a clean linter has been called, another view of
\* the request had no linters, and the output is empty.
C12_Witness ==
    \E o \in Requests :
        /\ Settled(o)
        /\ Len(applied[o]) = 1
        /\ linted[o][applied[o][1][2]] = <<NamedClean>>
        /\ \E v \in Views : pc[o][v] = "done" /\ linted[o][v] = <<>>
        /\ text[o] = <<>>

\* The error lines of a fragment, after its two header lines.
ErrorLines(ls) == SubSeq(Fragment(ls), 3, Len(Fragment(ls)))

\* The (line, error) pairs of all linters of a view.
Diagnostics(ls) ==
    UNION {UNION {{<<i, l, k>> : k \in 1..Len(ls[i].errors[l])} :
                     l \in DOMAIN ls[i].errors} : i \in 1..Len(ls)}

\* C13 (as stated): the fragment of a view with diagnostics is one header
\* naming the file (its basename, or the placeholder of an unnamed view)
\* followed by one line per diagnostic, and those lines ascend by line number
\* over the whole fragment, also when the view has several linters.
C13_FragmentSortedByLine ==
    \A r \in Requests : \A v \in Views :
        AnyErrors(linted[r][v]) =>
            LET f == Fragment(linted[r][v])
                e == ErrorLines(linted[r][v])
            IN /\ Cardinality(Headers(f)) = 1
               /\ f[2][1] = "header"
               /\ Len(e) = Cardinality(Diagnostics(linted[r][v]))
               /\ \A i \in 1..Len(e) : \A j \in 1..Len(e) :
                     i < j => e[i][2] <= e[j][2]

C15_FailureIsolated ==
    /\ [](\A o \in Requests : \A i \in 1..Len(enqueued[o]) :
              pc[enqueued[o][i][1]][enqueued[o][i][2]] # "failed")
    /\ [][\A r \in Requests : \A v \in Views :
              (pc[r][v] = "lint" /\ pc'[r][v] = "failed") =>
                  /\ \A q \in Requests : \A w \in Views :
                        <<q, w>> # <<r, v>> => pc'[q][w] = pc[q][w]
                  /\ UNCHANGED <<text, edits, pending, enqueued, applied>>]_vars
    /\ [][\A r \in Requests : \A v \in Views :
              pc[r][v] = "failed" =>
                  pc'[r][v] = "failed" /\ started'[r][v] = started[r][v]]_vars

\* One thread of a request failed, its sibling ran to completion and the
\* sibling's fragment, and nothing else, is in the output.
C15_Witness ==
    \E r \in Requests :
        /\ pc[r][1] = "failed"
        /\ pc[r][2] = "done"
        /\ AnyErrors(linted[r][2])
        /\ text[output[r]] = Fragment(linted[r][2])

\* The closures of s that belong to the request whose output is o.
OwnClosures(s, o) == SelectSeq(s, LAMBDA c : output[c[1]] = o)

\* C16: each request has an output view of its own, and every closure of a
\* thread of request R is appended to the queue of R's output, popped for
\* R's output and inserts into R's output only: the text of an output is made
\* of the fragments of its own request, whenever its threads complete.
C16_NoCrossTalk ==
    /\ \A r \in 1..nrequests : \A q \in 1..nrequests : r # q => output[r] # output[q]
    /\ \A o \in Requests :
          /\ OwnClosures(edits[o], o) = edits[o]
          /\ OwnClosures(enqueued[o], o) = enqueued[o]
          /\ OwnClosures(applied[o], o) = applied[o]
          /\ text[o] = TextOf(OwnClosures(applied[o], o))
    /\ draining # 0 => OwnClosures(batch, draining) = batch

\* A thread of the first request appends its closure after the second request
\* has started, run and filled its own output; the first output has text too.
C16_Witness ==
    /\ nrequests = 2
    /\ \E v \in Views : pc[1][v] = "run" /\ AnyErrors(linted[1][v])
    /\ text[output[2]] # <<>>
    /\ text[output[1]] # <<>>
    /\ text[output[1]] # text[output[2]]

\* The closure of (r, v) has been called on the output of its request.
Inserted(r, v) ==
    /\ output[r] # 0
    /\ \E i \in 1..Len(applied[output[r]]) : applied[output[r]][i] = <<r, v>>

\* C20: a lint thread that completed with diagnostics and appended its
\* closure has it called on its output sooner or later, whatever the other
\* threads do: the append is followed by the request of an edit command, and
\* the owner runs the commands requested.
C20_FragmentEventuallyInserted ==
    \A r \in Requests : \A v \in Views :
        (pc[r][v] = "run" /\ AnyErrors(linted[r][v]))
            ~> (Inserted(r, v) /\ Len(text[output[r]]) >= Len(Fragment(linted[r][v])))

\* The closure of a thread with diagnostics has been called while its sibling
\* is still linting: no barrier.
C20_Witness ==
    \E r \in Requests :
        /\ pc[r][1] = "lint"
        /\ pc[r][2] = "done"
        /\ AnyErrors(linted[r][2])
        /\ Inserted(r, 2)
        /\ text[output[r]] = Fragment(linted[r][2])

\* A step from a forward search that selected a region to a backward search,
\* from the selection it left, that selected a region out of several.
ForwardThenBackward ==
    /\ Searched("next") /\ raised = "none" /\ region_to_select # None
    /\ cmd' = "previous" /\ raised' = "none" /\ region_to_select' # None
    /\ Len(regions') > 1

RegionsLieApart ==
    \A i \in 1..Len(regions) : \A j \in 1..Len(regions) :
        i < j => /\ Before(regions[i], regions[j])
                 /\ ~Intersects(regions[i], regions[j])
                 /\ ~Touches(regions[i], regions[j])

\* A search with wrap_find over two or more regions that lie apart.
Cycling == HasErrors /\ wrap_find /\ Len(regions) >= 2 /\ RegionsLieApart

\* The index in `regions` of the region the search selected, 0 if none.
Selected ==
    IF \E i \in 1..Len(regions) : regions[i] = region_to_select
    THEN CHOOSE i \in 1..Len(regions) : regions[i] = region_to_select
    ELSE 0

EntriesOfLine(l) == {i \in 1..Len(options) : option_to_line[i] = l}

\* The messages of the entries i, i+1, ..., j of the panel, in order.
RECURSIVE MessagesOf(_, _)
MessagesOf(i, j) ==
    IF i > j THEN <<>> ELSE Tail(options[i]) \o MessagesOf(i + 1, j)

\* The command built the panel of a view with errors.
Listed == cmd = "all" /\ HasErrors

\* C18: the panel has its entries by ascending line; a line with k messages
\* has ceil(k/2) entries, one after the other; each entry is the header
\* "<line + 1>| <text of the line, stripped>" and one or two messages; the
\* messages of a line's entries, read in order, are the line's messages, none
\* dropped or repeated; and each entry maps back to its 0-based line.
C18_TwoMessagesPerEntry ==
    Listed =>
        /\ Len(option_to_line) = Len(options)
        /\ \A i \in 1..Len(options) : \A j \in 1..Len(options) :
              i < j => option_to_line[i] <= option_to_line[j]
        /\ \A i \in 1..Len(options) :
              /\ option_to_line[i] \in DOMAIN errors
              /\ Len(options[i]) \in {2, 3}
              /\ options[i][1] = FormatInt(option_to_line[i] + 1) \o <<"|", "sp">>
                                    \o strip(lineText[option_to_line[i]])
        /\ \A l \in Lines : l \notin DOMAIN errors => EntriesOfLine(l) = {}
        /\ \A l \in DOMAIN errors :
              /\ Cardinality(EntriesOfLine(l)) = (Len(errors[l]) + 1) \div 2
              /\ MessagesOf(Min(EntriesOfLine(l)), Max(EntriesOfLine(l))) = errors[l]

\* Two lines with errors, the first with three messages in two entries, and
\* a line text with blanks around it.
C18_Witness ==
    /\ Listed
    /\ DOMAIN errors = {0, 1}
    /\ Len(errors[0]) = 3
    /\ lineText[0] = <<"sp", "b", "sp", "c", "sp", "nl">>
    /\ Len(options) >= 3
    /\ options[1] = <<<<"1", "|", "sp", "b", "sp", "c">>, <<"m", 1>>, <<"m", 2>>>>
    /\ options[2] = <<<<"1", "|", "sp", "b", "sp", "c">>, <<"m", 3>>>>
    /\ option_to_line[3] = 1

====
